---------------------------- MODULE Spec2Model ----------------------------
(***************************************************************************)
(* A model of the blogging backend: process startup (server.js), the Auth  *)
(* Guard (middleware/authMiddleware.js), the upload filter and the post     *)
(* routes (routes/postRoutes.js) and the user routes (routes/userRoutes.js).*)
(* Each subsystem has its own specification over the shared variables:     *)
(*   SpecStartup  connectDB and the listen continuation                    *)
(*   SpecUpload   multer's fileFilter, the disk write and the handlers     *)
(*   SpecAuth     protect and the stages behind it                         *)
(*   SpecUsers    register, login and profile update                       *)
(*   SpecPosts    create, update, delete and like of posts                 *)
(* Strings whose content the code inspects (file names, content types, the *)
(* authorization header, the tags field) are sequences of one-character    *)
(* strings, and the string functions are computed on them.                 *)
(***************************************************************************)
EXTENDS Integers, Sequences, FiniteSets, TLC

VARIABLES
  \* ---- startup (server.js) ----
  cpc,          \* position of the running connectDB invocation
  retryCount,   \* the retryCount argument of that invocation
  attempts,     \* mongoose.connect calls made so far
  dbConnected,  \* mongoose.connect has resolved at least once
  promise,      \* state of the promise returned by the top-level connectDB()
  listening,    \* app.listen has been invoked
  bound,        \* the callback of app.listen has run (the port is bound)
  exitCode,     \* -1 while running, else the argument of process.exit
  succeededAt,  \* 0, or the attempt whose try block completed
  connLog,      \* outcome of each attempt, in order
  \* ---- upload (multer in postRoutes.js and userRoutes.js) ----
  upc,          \* stage of the upload request in progress
  upReq,        \* the request: route, file part (or none), body
  upResp,       \* status of the last response, 0 before the first
  disk,         \* files written under uploads/
  clock,        \* Date.now()
  postImages,   \* image field of every post created, in order
  profilePic,   \* profilePicture field of the authenticated user
  upTrace,      \* what the last finished request did
  \* ---- Auth Guard (middleware/authMiddleware.js) ----
  authUsers,    \* ids of the users in the Credential Store
  apc,          \* stage of the protected request in progress
  areq,         \* the request: authorization header, route, file part
  aDecoded,     \* decoded.id, 0 before jwt.verify has returned
  aUser,        \* req.user, 0 while unset
  aResponses,   \* statuses of the responses sent for the request, in order
  aStages,      \* the stages behind protect that have run for the request
  aCount,       \* protected requests made so far
  \* ---- user routes (routes/userRoutes.js) ----
  userDocs,     \* the users collection: id -> document, or NoDoc
  uproc,        \* the requests in progress, one per slot
  uCount,       \* requests made so far
  lastUserResp, \* the last response sent
  loginUnknown, \* last login response for an email nobody has, or NoResp
  loginWrongPw, \* last login response for a wrong password, or NoResp
  \* ---- post routes (routes/postRoutes.js) ----
  posts,        \* the posts collection: id -> document, or NoPost
  nextPostId,   \* the id the next created post gets
  pproc,        \* the authenticated requests in progress, one per slot
  pCount,       \* requests made so far
  lastPostResp, \* the last response sent, and what its request found and did
  chain         \* per post: the run of successive like requests by one user

varsStartup == <<cpc, retryCount, attempts, dbConnected, promise, listening,
                 bound, exitCode, succeededAt, connLog>>

varsUpload == <<upc, upReq, upResp, disk, clock, postImages, profilePic,
                upTrace>>

varsAuth == <<authUsers, apc, areq, aDecoded, aUser, aResponses, aStages,
              aCount>>

varsUsers == <<userDocs, uproc, uCount, lastUserResp, loginUnknown,
               loginWrongPw>>

varsPosts == <<posts, nextPostId, pproc, pCount, lastPostResp, chain>>

vars == <<varsStartup, varsUpload, varsAuth, varsUsers, varsPosts>>

\* what the actions of one subsystem leave alone
notStartup == <<varsUpload, varsAuth, varsUsers, varsPosts>>
notUpload  == <<varsStartup, varsAuth, varsUsers, varsPosts>>
notAuth    == <<varsStartup, varsUpload, varsUsers, varsPosts>>
notUsers   == <<varsStartup, varsUpload, varsAuth, varsPosts>>
notPosts   == <<varsStartup, varsUpload, varsAuth, varsUsers>>

(***************************************************************************)
(* String functions                                                         *)
(***************************************************************************)
\* String.prototype.startsWith
StartsWith(s, p) == Len(s) >= Len(p) /\ SubSeq(s, 1, Len(p)) = p

\* RegExp.prototype.test for a pattern that is a plain word, unanchored
Contains(s, p) ==
  \E i \in 1..(Len(s) - Len(p) + 1) : SubSeq(s, i, i + Len(p) - 1) = p

(***************************************************************************)
(* Startup: connectDB with retry, then app.listen                          *)
(***************************************************************************)
\* server.js:68  `if (retryCount < 3)`
RetryLimit == 3

StartupInit ==
  /\ cpc = "start"
  /\ retryCount = 0
  /\ attempts = 0
  /\ dbConnected = FALSE
  /\ promise = "pending"
  /\ listening = FALSE
  /\ bound = FALSE
  /\ exitCode = -1
  /\ succeededAt = 0
  /\ connLog = <<>>

\* The promise of the top-level call settles when invocation 0 returns.
Settle == IF retryCount = 0 THEN "resolved" ELSE promise

\* server.js:47-57: an invocation starts and calls mongoose.connect
CallConnect ==
  /\ cpc = "start"
  /\ exitCode = -1
  /\ cpc' = "awaitConnect"
  /\ attempts' = attempts + 1
  /\ UNCHANGED <<retryCount, dbConnected, promise, listening, bound,
                 exitCode, succeededAt, connLog>>
  /\ UNCHANGED notStartup

\* server.js:65-75: the catch block
Catch(outcome) ==
  /\ connLog' = Append(connLog, outcome)
  /\ IF retryCount < RetryLimit
       THEN /\ cpc' = "timer"
            /\ promise' = Settle
            /\ exitCode' = exitCode
       ELSE /\ cpc' = "exited"
            /\ promise' = promise
            /\ exitCode' = 1

\* server.js:52: mongoose.connect resolves
ConnectOK ==
  /\ cpc = "awaitConnect"
  /\ cpc' = "awaitList"
  /\ dbConnected' = TRUE
  /\ UNCHANGED <<retryCount, attempts, promise, listening, bound,
                 exitCode, succeededAt, connLog>>
  /\ UNCHANGED notStartup

\* server.js:52: mongoose.connect rejects
ConnectFail ==
  /\ cpc = "awaitConnect"
  /\ Catch("connectFailed")
  /\ UNCHANGED <<retryCount, attempts, dbConnected, listening, bound,
                 succeededAt>>
  /\ UNCHANGED notStartup

\* server.js:62-64: listCollections resolves and the invocation returns
ListOK ==
  /\ cpc = "awaitList"
  /\ cpc' = "returned"
  /\ promise' = Settle
  /\ succeededAt' = attempts
  /\ connLog' = Append(connLog, "ok")
  /\ UNCHANGED <<retryCount, attempts, dbConnected, listening, bound,
                 exitCode>>
  /\ UNCHANGED notStartup

\* server.js:62: listCollections rejects
ListFail ==
  /\ cpc = "awaitList"
  /\ Catch("listFailed")
  /\ UNCHANGED <<retryCount, attempts, dbConnected, listening, bound,
                 succeededAt>>
  /\ UNCHANGED notStartup

\* server.js:79-83: the continuation of connectDB(), a microtask that runs
\* as soon as the promise is resolved
ThenListen ==
  /\ promise = "resolved"
  /\ ~listening
  /\ exitCode = -1
  /\ listening' = TRUE
  /\ UNCHANGED <<cpc, retryCount, attempts, dbConnected, promise, bound,
                 exitCode, succeededAt, connLog>>
  /\ UNCHANGED notStartup

\* server.js:81-83: the callback of app.listen, once the port is bound
ListenCallback ==
  /\ listening
  /\ ~bound
  /\ exitCode = -1
  /\ bound' = TRUE
  /\ UNCHANGED <<cpc, retryCount, attempts, dbConnected, promise, listening,
                 exitCode, succeededAt, connLog>>
  /\ UNCHANGED notStartup

\* server.js:70: the 5 second timer fires and calls connectDB(retryCount + 1);
\* the listen continuation, a microtask, has run by then
TimerFire ==
  /\ cpc = "timer"
  /\ listening
  /\ exitCode = -1
  /\ cpc' = "start"
  /\ retryCount' = retryCount + 1
  /\ UNCHANGED <<attempts, dbConnected, promise, listening, bound,
                 exitCode, succeededAt, connLog>>
  /\ UNCHANGED notStartup

StartupNext ==
  \/ CallConnect
  \/ ConnectOK
  \/ ConnectFail
  \/ ListOK
  \/ ListFail
  \/ ThenListen
  \/ ListenCallback
  \/ TimerFire

\* C9: connectDB makes at most 3 connection attempts in total; when every
\* attempt has failed the process exits with a failure code; once an attempt
\* has succeeded no further attempt is made.
C9_AtMostThreeAttempts ==
  /\ attempts <= 3
  /\ (cpc = "exited" => exitCode = 1 /\ succeededAt = 0)
  /\ (succeededAt # 0 => attempts = succeededAt)

\* What the code does instead: one first attempt and RetryLimit retries.
StartupAttemptsBound ==
  /\ attempts <= RetryLimit + 1
  /\ (cpc = "exited" => exitCode = 1 /\ succeededAt = 0
                          /\ attempts = RetryLimit + 1)
  /\ (succeededAt # 0 => attempts = succeededAt)

\* C10: app.listen is never invoked while the database is unconnected.
C10_ListenOnlyWhenConnected == listening => dbConnected


(***************************************************************************)
(* Upload: multer's fileFilter, the disk storage and the two handlers that *)
(* take a file (POST /api/posts, PUT /api/users/profile)                   *)
(***************************************************************************)
\* requests made in one run
MaxUploads == 2

\* String.prototype.toLowerCase, on the letters the file names use
LowerChar(c) ==
  CASE c = "P" -> "p" [] c = "N" -> "n" [] c = "G" -> "g"
    [] c = "J" -> "j" [] OTHER -> c

ToLowerCase(s) == [i \in 1..Len(s) |-> LowerChar(s[i])]

Dots(s) == {i \in 1..Len(s) : s[i] = "."}

LastDot(s) == CHOOSE i \in Dots(s) : \A j \in Dots(s) : j <= i

\* path.extname: from the last dot of the name to its end; empty when the
\* name has no dot or only a leading one
ExtName(s) ==
  IF Dots(s) = {} \/ LastDot(s) = 1 THEN <<>> ELSE SubSeq(s, LastDot(s), Len(s))

\* postRoutes.js:23, userRoutes.js:24  /jpeg|jpg|png/.test(s)
Filetypes(s) ==
  \/ Contains(s, <<"j", "p", "e", "g">>)
  \/ Contains(s, <<"j", "p", "g">>)
  \/ Contains(s, <<"p", "n", "g">>)

\* postRoutes.js:22-31, userRoutes.js:23-32
FileFilter(file) ==
  LET extname  == Filetypes(ToLowerCase(ExtName(file.originalname)))
      mimetype == Filetypes(file.mimetype)
  IN  extname /\ mimetype

\* Sample file names: a base name and an extension
Extensions ==
  { <<>>,
    <<".", "p", "n", "g">>,
    <<".", "P", "N", "G">>,
    <<".", "j", "p", "g">>,
    <<".", "J", "p", "e", "g">>,
    <<".", "g", "i", "f">>,
    <<".", "p", "n", "g", "x">>,
    <<".", "a", "p", "n", "g">>,
    <<".", "p", "n", "g", ".", "e", "x", "e">>,
    <<".", "s", "h">> }

FileNames == { <<"a">> \o e : e \in Extensions } \cup { <<"p", "n", "g">> }

Image == <<"i", "m", "a", "g", "e", "/">>

\* Sample declared content types
MimeTypes ==
  { Image \o <<"p", "n", "g">>,
    Image \o <<"j", "p", "e", "g">>,
    Image \o <<"j", "p", "g">>,
    Image \o <<"g", "i", "f">>,
    <<"I", "M", "A", "G", "E", "/", "P", "N", "G">>,
    <<"t", "e", "x", "t", "/", "x", "-", "s", "h">> }

NoFile == [originalname |-> <<>>, mimetype |-> <<>>, present |-> FALSE]

Files ==
  [originalname : FileNames, mimetype : MimeTypes, present : {TRUE}]

UploadRoutes == {"posts", "profiles"}

NoUpReq == [route |-> "none", file |-> NoFile, bodyOK |-> FALSE]

NoUpTrace == [rejected |-> FALSE, wrote |-> FALSE, changed |-> FALSE]

NoUrl == [dir |-> "none", stamp |-> 0, ext |-> <<>>]

UploadInit ==
  /\ upc = "idle"
  /\ upReq = NoUpReq
  /\ upResp = 0
  /\ disk = {}
  /\ clock = 0
  /\ postImages = <<>>
  /\ profilePic = NoUrl
  /\ upTrace = NoUpTrace

\* An authenticated multipart request arrives at upload.single(field).
\* bodyOK: the body carries title and content (posts only).
UpBegin(route, file, bodyOK) ==
  /\ upc = "idle"
  /\ clock < MaxUploads
  /\ clock' = clock + 1
  /\ upReq' = [route |-> route, file |-> file, bodyOK |-> bodyOK]
  /\ upc' = IF file.present THEN "filter" ELSE "handler"
  /\ upTrace' = NoUpTrace
  /\ UNCHANGED <<upResp, disk, postImages, profilePic>>
  /\ UNCHANGED notUpload

\* postRoutes.js:26-30, userRoutes.js:27-31: the filter accepts, or passes
\* the string 'Error: Images only!' to next, which server.js:94-100 answers
\* with err.statusCode || 500
UpFilter ==
  /\ upc = "filter"
  /\ IF FileFilter(upReq.file)
       THEN /\ upc' = "write"
            /\ UNCHANGED <<upResp, upTrace>>
       ELSE /\ upc' = "idle"
            /\ upResp' = 500
            /\ upTrace' = [upTrace EXCEPT !.rejected = TRUE]
  /\ UNCHANGED <<upReq, disk, clock, postImages, profilePic>>
  /\ UNCHANGED notUpload

\* postRoutes.js:10-17, userRoutes.js:11-18: diskStorage, with the file name
\* <prefix>-<Date.now()><path.extname(originalname)>
StoredFile ==
  [dir |-> upReq.route, stamp |-> clock,
   ext |-> ExtName(upReq.file.originalname)]

UpWrite ==
  /\ upc = "write"
  /\ disk' = disk \cup {[url |-> StoredFile, file |-> upReq.file]}
  /\ upTrace' = [upTrace EXCEPT !.wrote = TRUE]
  /\ upc' = "handler"
  /\ UNCHANGED <<upReq, upResp, clock, postImages, profilePic>>
  /\ UNCHANGED notUpload

\* `/uploads/<dir>/${req.file.filename}`, or none without a file
FileUrl == IF upReq.file.present THEN StoredFile ELSE NoUrl

\* postRoutes.js:35-88
UpCreatePost ==
  /\ upc = "handler"
  /\ upReq.route = "posts"
  /\ IF ~upReq.bodyOK
       THEN /\ upResp' = 400
            /\ UNCHANGED <<postImages, upTrace>>
       ELSE /\ postImages' = Append(postImages, FileUrl)
            /\ upResp' = 201
            /\ upTrace' = [upTrace EXCEPT !.changed = TRUE]
  /\ upc' = "idle"
  /\ UNCHANGED <<upReq, disk, clock, profilePic>>
  /\ UNCHANGED notUpload

\* userRoutes.js:140-172
UpUpdateProfile ==
  /\ upc = "handler"
  /\ upReq.route = "profiles"
  /\ profilePic' = IF upReq.file.present THEN FileUrl ELSE profilePic
  /\ upResp' = 200
  /\ upTrace' = [upTrace EXCEPT !.changed = TRUE]
  /\ upc' = "idle"
  /\ UNCHANGED <<upReq, disk, clock, postImages>>
  /\ UNCHANGED notUpload

UploadNext ==
  \/ \E route \in UploadRoutes, file \in Files \cup {NoFile},
        bodyOK \in BOOLEAN :
       /\ (route = "profiles" => bodyOK)
       /\ UpBegin(route, file, bodyOK)
  \/ UpFilter
  \/ UpWrite
  \/ UpCreatePost
  \/ UpUpdateProfile

\* The allow-list of the claim: the extension, lower-cased, is .jpeg, .jpg
\* or .png, and the content type is image/jpeg, image/jpg or image/png.
AllowedExtension(name) ==
  ToLowerCase(ExtName(name)) \in
    { <<".", "j", "p", "e", "g">>, <<".", "j", "p", "g">>,
      <<".", "p", "n", "g">> }

AllowedContentType(m) ==
  m \in { Image \o <<"j", "p", "e", "g">>, Image \o <<"j", "p", "g">>,
          Image \o <<"p", "n", "g">> }

\* C5: a file is on disk only if its extension and its content type are both
\* in the allow-list; a rejected request wrote no file and changed no record.
C5_OnlyAllowedFilesWritten ==
  /\ \A f \in disk : /\ AllowedExtension(f.file.originalname)
                     /\ AllowedContentType(f.file.mimetype)
  /\ (upTrace.rejected => ~upTrace.wrote /\ ~upTrace.changed)

\* What the code guarantees instead: both strings contain one of the words.
UploadFilterFact ==
  /\ \A f \in disk :
        /\ Filetypes(ToLowerCase(ExtName(f.file.originalname)))
        /\ Filetypes(f.file.mimetype)
  /\ (upTrace.rejected => ~upTrace.wrote /\ ~upTrace.changed)

(***************************************************************************)
(* Auth Guard: protect, then upload.single and the handler body            *)
(***************************************************************************)
\* protected requests made in one run
MaxAuthRequests == 2

UserIds == {1, 2}

\* A token is one symbol of the header. jsonwebtoken's verify returns the
\* payload of a token signed with JWT_SECRET that has not expired, and
\* throws for anything else.
Tokens == {"jwt1", "jwt2", "jwtExpired", "jwtForged"}

\* authMiddleware.js:20  jwt.verify(token, secret): the id, or 0 for a throw
JwtVerify(field) ==
  IF field = <<"jwt1">> THEN 1
  ELSE IF field = <<"jwt2">> THEN 2
  ELSE 0

\* String.prototype.split(sep) for a one-character separator
RECURSIVE Split(_, _)
Split(s, sep) ==
  IF \A i \in 1..Len(s) : s[i] # sep
    THEN <<s>>
    ELSE LET i == CHOOSE k \in 1..Len(s) :
                    s[k] = sep /\ \A j \in 1..(k - 1) : s[j] # sep
         IN  <<SubSeq(s, 1, i - 1)>> \o Split(SubSeq(s, i + 1, Len(s)), sep)

Bearer == <<"B", "e", "a", "r", "e", "r">>

\* authMiddleware.js:17  authorization.split(' ')[1]; undefined and the
\* empty string both make jwt.verify throw
TokenField(header) ==
  IF Len(Split(header, " ")) >= 2 THEN Split(header, " ")[2] ELSE <<>>

\* authMiddleware.js:14  the header is there and starts with 'Bearer'
HasBearer(req) ==
  req.hasHeader /\ Len(req.header) > 0 /\ StartsWith(req.header, Bearer)

\* Sample headers: a scheme, a separator, a token, a tail
Schemes ==
  { <<>>, Bearer, Bearer \o <<"x">>, <<"b", "e", "a", "r", "e", "r">>,
    <<"B", "a", "s", "i", "c">> }

Separators == { <<>>, <<" ">>, <<" ", " ">> }

TokenParts == { <<t>> : t \in Tokens } \cup { <<>> }

Tails == { <<>>, <<" ", "x">> }

Headers ==
  { sc \o sp \o tk \o tl :
      sc \in Schemes, sp \in Separators, tk \in TokenParts, tl \in Tails }

GoodFile ==
  [originalname |-> <<"a", ".", "p", "n", "g">>,
   mimetype |-> Image \o <<"p", "n", "g">>, present |-> TRUE]

BadFile ==
  [originalname |-> <<"a", ".", "g", "i", "f">>,
   mimetype |-> Image \o <<"g", "i", "f">>, present |-> TRUE]

\* the stages of a protected route behind protect
ProtectedRoutes == {"PUT /api/posts/:id", "DELETE /api/posts/:id"}

HasUploadStage(route) == route = "PUT /api/posts/:id"

NoAuthReq ==
  [hasHeader |-> FALSE, header |-> <<>>, route |-> "none", file |-> NoFile]

AuthInit ==
  /\ authUsers = {}
  /\ apc = "idle"
  /\ areq = NoAuthReq
  /\ aDecoded = 0
  /\ aUser = 0
  /\ aResponses = <<>>
  /\ aStages = {}
  /\ aCount = 0

\* userRoutes.js:59  User.create adds a user to the Credential Store
AuthRegister(u) ==
  /\ u \notin authUsers
  /\ authUsers' = authUsers \cup {u}
  /\ UNCHANGED <<apc, areq, aDecoded, aUser, aResponses, aStages, aCount>>
  /\ UNCHANGED notAuth

\* a request for a protected route arrives
AuthBegin(hasHeader, header, route, file) ==
  /\ apc = "idle"
  /\ aCount < MaxAuthRequests
  /\ aCount' = aCount + 1
  /\ areq' = [hasHeader |-> hasHeader, header |-> header, route |-> route,
              file |-> file]
  /\ apc' = "protect"
  /\ aDecoded' = 0
  /\ aUser' = 0
  /\ aResponses' = <<>>
  /\ aStages' = {}
  /\ UNCHANGED authUsers
  /\ UNCHANGED notAuth

\* authMiddleware.js:14-24 and 37-54: up to the await of User.findById
Protect ==
  /\ apc = "protect"
  /\ IF HasBearer(areq)
       THEN IF JwtVerify(TokenField(areq.header)) # 0
              THEN /\ aDecoded' = JwtVerify(TokenField(areq.header))
                   /\ apc' = "findById"
                   /\ UNCHANGED aResponses
              ELSE /\ aResponses' = Append(aResponses, 401)
                   /\ apc' = "idle"
                   /\ UNCHANGED aDecoded
       ELSE /\ aResponses' = Append(aResponses, 401)
            /\ apc' = "idle"
            /\ UNCHANGED aDecoded
  /\ UNCHANGED <<authUsers, areq, aUser, aStages, aCount>>
  /\ UNCHANGED notAuth

\* authMiddleware.js:24-48: the user is loaded, then next() or the catch
ProtectFind ==
  /\ apc = "findById"
  /\ IF aDecoded \in authUsers
       THEN /\ aUser' = aDecoded
            /\ apc' = IF HasUploadStage(areq.route) THEN "upload" ELSE "handler"
            /\ UNCHANGED aResponses
       ELSE /\ aResponses' = Append(aResponses, 401)
            /\ apc' = "idle"
            /\ UNCHANGED aUser
  /\ UNCHANGED <<authUsers, areq, aDecoded, aStages, aCount>>
  /\ UNCHANGED notAuth

\* postRoutes.js:141  upload.single('image'): a refused file goes to the
\* error middleware (server.js:94-100), anything else to the handler
AuthUpload ==
  /\ apc = "upload"
  /\ aStages' = aStages \cup {"upload"}
  /\ IF areq.file.present /\ ~FileFilter(areq.file)
       THEN /\ aResponses' = Append(aResponses, 500)
            /\ apc' = "idle"
       ELSE /\ apc' = "handler"
            /\ UNCHANGED aResponses
  /\ UNCHANGED <<authUsers, areq, aDecoded, aUser, aCount>>
  /\ UNCHANGED notAuth

\* the handler body runs and answers
AuthHandler ==
  /\ apc = "handler"
  /\ aStages' = aStages \cup {"handler"}
  /\ aResponses' = Append(aResponses, 200)
  /\ apc' = "idle"
  /\ UNCHANGED <<authUsers, areq, aDecoded, aUser, aCount>>
  /\ UNCHANGED notAuth

AuthNext ==
  \/ \E u \in UserIds : AuthRegister(u)
  \/ \E hasHeader \in BOOLEAN, header \in Headers, route \in ProtectedRoutes,
        file \in {NoFile, GoodFile, BadFile} :
       /\ (~hasHeader => header = <<>>)
       /\ (~HasUploadStage(route) => file = NoFile)
       /\ AuthBegin(hasHeader, header, route, file)
  \/ Protect
  \/ ProtectFind
  \/ AuthUpload
  \/ AuthHandler

\* The request carries a bearer token that verifies and whose user is in
\* the store: its header is "Bearer", one space, the token.
CarriesValidBearer(req) ==
  /\ req.hasHeader
  /\ \E t \in Tokens :
       /\ req.header = Bearer \o <<" ">> \o <<t>>
       /\ JwtVerify(<<t>>) \in authUsers

AuthFinished == apc = "idle" /\ areq # NoAuthReq

\* C2: the stages behind the guard run only for a request that carries a
\* valid bearer token of a stored user; every other request gets exactly one
\* response, a 401, and no later stage runs for it.
C2_GuardLetsOnlyValidBearerThrough ==
  /\ (aStages # {} \/ apc \in {"upload", "handler"}
        => CarriesValidBearer(areq))
  /\ (AuthFinished /\ ~CarriesValidBearer(areq)
        => aResponses = <<401>> /\ aStages = {})

\* What the code accepts: a header that starts with "Bearer" and whose
\* second space-separated field verifies for a stored user.
CodeAccepts(req) ==
  /\ HasBearer(req)
  /\ JwtVerify(TokenField(req.header)) \in authUsers

AuthGuardFact ==
  /\ (aStages # {} \/ apc \in {"upload", "handler"} => CodeAccepts(areq))
  /\ (AuthFinished /\ aStages = {} => aResponses = <<401>>)
  /\ Len(aResponses) <= 1

(***************************************************************************)
(* User routes: register, login, profile update.  The fields the routes    *)
(* only copy (bio, profilePicture) are left out.                           *)
(***************************************************************************)
\* requests made in one run
MaxUserRequests == 3

\* documents the users collection can hold
MaxUsers == 2

\* concurrent requests
UserSlots == {1, 2}

Emails == {"a@x", "b@x"}
Passwords == {"pw1", "pw2"}

\* a field a request leaves out is the empty string
Absent == ""

NoDoc == [username |-> Absent, email |-> Absent, password |-> <<>>]

NoResp == [status |-> 0, message |-> ""]

IdleProc ==
  [pc |-> "idle", uid |-> 0,
   body |-> [username |-> Absent, email |-> Absent, password |-> Absent],
   doc |-> NoDoc, dirty |-> {}]

DocIds == 1..MaxUsers

Stored == {i \in DocIds : userDocs[i] # NoDoc}

\* userModel: the pre-save hook stores a salted one-way hash
Hash(p) == <<"bcrypt", p>>

\* userModel: user.matchPassword(entered)
MatchPassword(doc, entered) == doc.password = Hash(entered)

\* a store without unique indexes
NoUniqueIndex(id, username, email) == TRUE

\* userModel: username and email are declared unique, so the store refuses
\* a write that would give document id a username or email another has
UniqueIndexAllows(id, username, email) ==
  \A j \in Stored \ {id} :
    userDocs[j].username # username /\ userDocs[j].email # email

UsersInit ==
  /\ userDocs = [i \in DocIds |-> NoDoc]
  /\ uproc = [p \in UserSlots |-> IdleProc]
  /\ uCount = 0
  /\ lastUserResp = NoResp
  /\ loginUnknown = NoResp
  /\ loginWrongPw = NoResp

Respond(p, status, message) ==
  /\ uproc' = [uproc EXCEPT ![p] = IdleProc]
  /\ lastUserResp' = [status |-> status, message |-> message]

\* the slots with a registration past its validation
Registering == {q \in UserSlots : uproc[q].pc \in {"regFindOne", "regCreate"}}

\* userRoutes.js:36-49: the body is read and checked
RegisterStart(p, username, email, password) ==
  /\ uproc[p].pc = "idle"
  /\ uCount < MaxUserRequests
  /\ Cardinality(Stored) + Cardinality(Registering) < MaxUsers
  /\ uCount' = uCount + 1
  /\ IF username = Absent \/ email = Absent \/ password = Absent
       THEN Respond(p, 400, "Please provide all required fields")
       ELSE /\ uproc' = [uproc EXCEPT ![p] =
                [IdleProc EXCEPT !.pc = "regFindOne",
                   !.body = [username |-> username, email |-> email,
                             password |-> password]]]
            /\ UNCHANGED lastUserResp
  /\ UNCHANGED <<userDocs, loginUnknown, loginWrongPw>>
  /\ UNCHANGED notUsers

\* User.findOne({ $or: [{ email }, { username }] }): the first match
Matches(body) ==
  {i \in Stored : userDocs[i].email = body.email
                    \/ userDocs[i].username = body.username}

First(S) == CHOOSE i \in S : \A j \in S : i <= j

\* userRoutes.js:51-57
RegisterFindOne(p) ==
  /\ uproc[p].pc = "regFindOne"
  /\ LET body == uproc[p].body
     IN  IF Matches(body) # {}
           THEN Respond(p, 400,
                  IF userDocs[First(Matches(body))].email = body.email
                    THEN "Email already registered"
                    ELSE "Username already taken")
           ELSE /\ uproc' = [uproc EXCEPT ![p].pc = "regCreate"]
                /\ UNCHANGED lastUserResp
  /\ UNCHANGED <<userDocs, uCount, loginUnknown, loginWrongPw>>
  /\ UNCHANGED notUsers

\* userRoutes.js:59-83: User.create, then 201, or the catch's 400 when the
\* store refuses the document
RegisterCreate(p) ==
  /\ uproc[p].pc = "regCreate"
  /\ LET body == uproc[p].body
         free == DocIds \ Stored
     IN  IF UniqueIndexAllows(0, body.username, body.email)
           THEN /\ userDocs' = [userDocs EXCEPT ![First(free)] =
                      [username |-> body.username, email |-> body.email,
                       password |-> Hash(body.password)]]
                /\ Respond(p, 201, "created")
           ELSE /\ Respond(p, 400, "duplicate key")
                /\ UNCHANGED userDocs
  /\ UNCHANGED <<uCount, loginUnknown, loginWrongPw>>
  /\ UNCHANGED notUsers

\* userRoutes.js:87-99
LoginStart(p, email, password) ==
  /\ uproc[p].pc = "idle"
  /\ uCount < MaxUserRequests
  /\ uCount' = uCount + 1
  /\ IF email = Absent \/ password = Absent
       THEN Respond(p, 400, "Please provide email and password")
       ELSE /\ uproc' = [uproc EXCEPT ![p] =
                [IdleProc EXCEPT !.pc = "loginFindOne",
                   !.body = [username |-> Absent, email |-> email,
                             password |-> password]]]
            /\ UNCHANGED lastUserResp
  /\ UNCHANGED <<userDocs, loginUnknown, loginWrongPw>>
  /\ UNCHANGED notUsers

\* a login that tells an unknown email apart
UnknownEmailResponseTelling == [status |-> 404, message |-> "User not found"]

\* userRoutes.js:103-107
UnknownEmailResponse ==
  [status |-> 401, message |-> "Invalid email or password"]

\* userRoutes.js:111-115
WrongPasswordResponse ==
  [status |-> 401, message |-> "Invalid email or password"]

WithEmail(email) == {i \in Stored : userDocs[i].email = email}

\* userRoutes.js:101-107: User.findOne({ email })
LoginFindOne(p) ==
  /\ uproc[p].pc = "loginFindOne"
  /\ IF WithEmail(uproc[p].body.email) = {}
       THEN /\ Respond(p, UnknownEmailResponse.status,
                       UnknownEmailResponse.message)
            /\ loginUnknown' = UnknownEmailResponse
       ELSE /\ uproc' = [uproc EXCEPT ![p].pc = "loginMatch",
                  ![p].uid = First(WithEmail(uproc[p].body.email)),
                  ![p].doc = userDocs[First(WithEmail(uproc[p].body.email))]]
            /\ UNCHANGED <<lastUserResp, loginUnknown>>
  /\ UNCHANGED <<userDocs, uCount, loginWrongPw>>
  /\ UNCHANGED notUsers

\* userRoutes.js:109-129: matchPassword on the loaded document
LoginMatch(p) ==
  /\ uproc[p].pc = "loginMatch"
  /\ IF ~MatchPassword(uproc[p].doc, uproc[p].body.password)
       THEN /\ Respond(p, WrongPasswordResponse.status,
                       WrongPasswordResponse.message)
            /\ loginWrongPw' = WrongPasswordResponse
       ELSE /\ Respond(p, 200, "token")
            /\ UNCHANGED loginWrongPw
  /\ UNCHANGED <<userDocs, uCount, loginUnknown>>
  /\ UNCHANGED notUsers

\* userRoutes.js:140: protect has set req.user to a stored user
ProfileStart(p, uid, username, email, password) ==
  /\ uproc[p].pc = "idle"
  /\ uCount < MaxUserRequests
  /\ uid \in Stored
  /\ uCount' = uCount + 1
  /\ uproc' = [uproc EXCEPT ![p] =
        [IdleProc EXCEPT !.pc = "profFindById", !.uid = uid,
           !.body = [username |-> username, email |-> email,
                     password |-> password]]]
  /\ UNCHANGED <<userDocs, lastUserResp, loginUnknown, loginWrongPw>>
  /\ UNCHANGED notUsers

\* `body.field || user.field`
OrElse(given, kept) == IF given # Absent THEN given ELSE kept

\* userRoutes.js:142-154: the document is loaded and its fields assigned;
\* a field is modified when its value changes
ProfileFindById(p) ==
  /\ uproc[p].pc = "profFindById"
  /\ LET user == userDocs[uproc[p].uid]
         body == uproc[p].body
         doc  == [username |-> OrElse(body.username, user.username),
                  email    |-> OrElse(body.email, user.email),
                  password |-> IF body.password # Absent
                                 THEN Hash(body.password) ELSE user.password]
     IN  uproc' = [uproc EXCEPT ![p].pc = "profSave", ![p].doc = doc,
                     ![p].dirty = {f \in {"username", "email", "password"} :
                                     doc[f] # user[f]}]
  /\ UNCHANGED <<userDocs, uCount, lastUserResp, loginUnknown, loginWrongPw>>
  /\ UNCHANGED notUsers

\* userRoutes.js:156-171: user.save() writes the modified fields, then 200,
\* or the catch's 400 when the store refuses the write
ProfileSave(p) ==
  /\ uproc[p].pc = "profSave"
  /\ LET uid == uproc[p].uid
         doc == uproc[p].doc
         new == [f \in {"username", "email", "password"} |->
                   IF f \in uproc[p].dirty THEN doc[f] ELSE userDocs[uid][f]]
     IN  IF UniqueIndexAllows(uid, new.username, new.email)
           THEN /\ userDocs' = [userDocs EXCEPT ![uid] = new]
                /\ Respond(p, 200, "token")
           ELSE /\ Respond(p, 400, "duplicate key")
                /\ UNCHANGED userDocs
  /\ UNCHANGED <<uCount, loginUnknown, loginWrongPw>>
  /\ UNCHANGED notUsers

\* Sample bodies of the three requests
UserBody(username, email, password) ==
  [username |-> username, email |-> email, password |-> password]

RegisterBodies ==
  { UserBody("alice", "a@x", "pw1"),
    UserBody("bob", "b@x", "pw2"),
    UserBody("alice", "b@x", "pw1"),
    UserBody("bob", "a@x", "pw1"),
    UserBody(Absent, "a@x", "pw1"),
    UserBody("alice", Absent, "pw1"),
    UserBody("alice", "a@x", Absent) }

LoginBodies ==
  { UserBody(Absent, e, pw) : e \in Emails, pw \in Passwords }
    \cup { UserBody(Absent, Absent, "pw1"), UserBody(Absent, "a@x", Absent) }

ProfileBodies ==
  { UserBody(Absent, Absent, Absent),
    UserBody("alice", Absent, Absent),
    UserBody("bob", Absent, Absent),
    UserBody(Absent, "a@x", Absent),
    UserBody(Absent, "b@x", Absent),
    UserBody(Absent, Absent, "pw2") }

UsersNext ==
  \/ \E p \in UserSlots, b \in RegisterBodies :
       RegisterStart(p, b.username, b.email, b.password)
  \/ \E p \in UserSlots : RegisterFindOne(p)
  \/ \E p \in UserSlots : RegisterCreate(p)
  \/ \E p \in UserSlots, b \in LoginBodies : LoginStart(p, b.email, b.password)
  \/ \E p \in UserSlots : LoginFindOne(p)
  \/ \E p \in UserSlots : LoginMatch(p)
  \/ \E p \in UserSlots, uid \in DocIds, b \in ProfileBodies :
       ProfileStart(p, uid, b.username, b.email, b.password)
  \/ \E p \in UserSlots : ProfileFindById(p)
  \/ \E p \in UserSlots : ProfileSave(p)

\* C3: a login for an email nobody has and a login with a wrong password for
\* an email somebody has get the same status, 401, and the same message.
C3_LoginFailuresIdentical ==
  /\ (loginUnknown # NoResp =>
        loginUnknown = [status |-> 401, message |-> "Invalid email or password"])
  /\ (loginWrongPw # NoResp =>
        loginWrongPw = [status |-> 401, message |-> "Invalid email or password"])
  /\ (loginUnknown # NoResp /\ loginWrongPw # NoResp =>
        loginUnknown = loginWrongPw)

\* both kinds of failed login have happened
C3_Witness == loginUnknown # NoResp /\ loginWrongPw # NoResp

MaxPostRequests == 3

\* ids the posts collection hands out
MaxPosts == 2

\* concurrent requests
PostSlots == {1, 2}

\* authenticated users
Authors == {1, 2}

PostIds == 1..MaxPosts

\* Sample values of the tags field of a request body
TagStrings == { <<>>, <<"a", ",", " ", "b">> }

\* String.prototype.trim
RECURSIVE Trim(_)
Trim(s) ==
  IF Len(s) > 0 /\ s[1] = " " THEN Trim(Tail(s))
  ELSE IF Len(s) > 0 /\ s[Len(s)] = " " THEN Trim(SubSeq(s, 1, Len(s) - 1))
  ELSE s

\* postRoutes.js:62, 154  tags.split(',').map(tag => tag.trim())
ParseTags(str) ==
  [i \in 1..Len(Split(str, ",")) |-> Trim(Split(str, ",")[i])]

NoPost ==
  [author |-> 0, title |-> Absent, content |-> Absent, tags |-> <<>>,
   image |-> Absent, likes |-> <<>>, v |-> 0]

IdlePost ==
  [pc |-> "idle", kind |-> "none", user |-> 0, pid |-> 0, doc |-> NoPost,
   dirty |-> {}, likesOp |-> "none"]

NoPostResp ==
  [kind |-> "none", status |-> 0, found |-> FALSE, author |-> FALSE,
   changed |-> FALSE]

NoChain == [n |-> 0, u |-> 0, before |-> <<>>, open |-> 0]

Exists(pid) == posts[pid] # NoPost

SetOf(seq) == {seq[i] : i \in 1..Len(seq)}

\* like lists the handler leaves behind when requests do not overlap
DupFree == { <<>>, <<1>>, <<1, 2>> }

\* One post exists, written by user 1; its like list is any list without
\* duplicates.
PostsInit ==
  /\ \E likes \in DupFree :
       posts = [i \in PostIds |->
                  IF i = 1
                    THEN [author |-> 1, title |-> "T1", content |-> "C1",
                          tags |-> <<>>, image |-> Absent, likes |-> likes,
                          v |-> 0]
                    ELSE NoPost]
  /\ nextPostId = 2
  /\ pproc = [r \in PostSlots |-> IdlePost]
  /\ pCount = 0
  /\ lastPostResp = NoPostResp
  /\ chain = [i \in PostIds |-> NoChain]

CanBegin(r) == pproc[r].pc = "idle" /\ pCount < MaxPostRequests

\* another request on post pid is between its load and its response
Busy(r, pid) ==
  \E q \in PostSlots \ {r} : pproc[q].pc # "idle" /\ pproc[q].pid = pid

\* a request other than a like touches post pid
BreakChain(pid) == chain' = [chain EXCEPT ![pid] = NoChain]

\* The response of slot r. changed: the step that answers changed the
\* collection.
Answer(r, kind, status, found, author) ==
  /\ pproc' = [pproc EXCEPT ![r] = IdlePost]
  /\ lastPostResp' = [kind |-> kind, status |-> status, found |-> found,
                      author |-> author, changed |-> posts' # posts]

\* postRoutes.js:35-88: POST /api/posts
CreatePost(r, user, body) ==
  /\ CanBegin(r)
  /\ pCount' = pCount + 1
  /\ IF body.title = Absent \/ body.content = Absent
       THEN /\ UNCHANGED <<posts, nextPostId, chain>>
            /\ Answer(r, "create", 400, FALSE, FALSE)
       ELSE /\ nextPostId <= MaxPosts
            /\ posts' = [posts EXCEPT ![nextPostId] =
                  [author |-> user, title |-> body.title,
                   content |-> body.content,
                   tags |-> IF body.tags # <<>> THEN ParseTags(body.tags)
                            ELSE <<>>,
                   image |-> IF body.file THEN "/uploads/posts/new" ELSE Absent,
                   likes |-> <<>>, v |-> 0]]
            /\ nextPostId' = nextPostId + 1
            /\ BreakChain(nextPostId)
            /\ Answer(r, "create", 201, FALSE, TRUE)
  /\ UNCHANGED notPosts

\* the catch block of PUT /api/posts/:id answers 400 whatever status the
\* try block had set (postRoutes.js:147, 163, 166-168)
PutCatchStatus(set) == 400

\* postRoutes.js:151-158: the fields a body overwrites on the loaded post
PutAssign(post, body) ==
  [post EXCEPT
     !.title   = OrElse(body.title, post.title),
     !.content = OrElse(body.content, post.content),
     !.tags    = IF body.tags # <<>> THEN ParseTags(body.tags) ELSE post.tags,
     !.image   = IF body.file THEN "/uploads/posts/new" ELSE post.image]

PostFields == {"title", "content", "tags", "image"}

\* postRoutes.js:141-158: PUT /api/posts/:id up to post.save()
PutLoad(r, user, pid, body) ==
  /\ CanBegin(r)
  /\ pCount' = pCount + 1
  /\ BreakChain(pid)
  /\ UNCHANGED <<posts, nextPostId>>
  /\ IF ~Exists(pid)
       THEN Answer(r, "put", PutCatchStatus(404), FALSE, FALSE)
       ELSE IF posts[pid].author # user
         THEN Answer(r, "put", PutCatchStatus(401), TRUE, FALSE)
         ELSE /\ pproc' = [pproc EXCEPT ![r] =
                    [IdlePost EXCEPT !.pc = "putSave", !.kind = "put",
                       !.user = user, !.pid = pid,
                       !.doc = PutAssign(posts[pid], body),
                       !.dirty = {f \in PostFields :
                           PutAssign(posts[pid], body)[f] # posts[pid][f]}]]
              /\ UNCHANGED lastPostResp
  /\ UNCHANGED notPosts

\* postRoutes.js:160-168: post.save() writes the modified fields
PutSave(r) ==
  /\ pproc[r].pc = "putSave"
  /\ LET pid   == pproc[r].pid
         doc   == pproc[r].doc
         dirty == pproc[r].dirty
     IN  /\ BreakChain(pid)
         /\ IF ~Exists(pid) \/ ("tags" \in dirty /\ posts[pid].v # doc.v)
              THEN /\ UNCHANGED posts
                   /\ Answer(r, "put", PutCatchStatus(200), TRUE, TRUE)
              ELSE /\ posts' = [posts EXCEPT ![pid] =
                         [f \in DOMAIN @ |->
                            IF f \in dirty THEN doc[f]
                            ELSE IF f = "v" /\ "tags" \in dirty THEN @[f] + 1
                            ELSE @[f]]]
                   /\ Answer(r, "put", 200, TRUE, TRUE)
  /\ UNCHANGED <<nextPostId, pCount>>
  /\ UNCHANGED notPosts

\* postRoutes.js:172-198: DELETE /api/posts/:id up to findByIdAndDelete
DeleteLoad(r, user, pid) ==
  /\ CanBegin(r)
  /\ pCount' = pCount + 1
  /\ BreakChain(pid)
  /\ UNCHANGED <<posts, nextPostId>>
  /\ IF ~Exists(pid)
       THEN Answer(r, "delete", 404, FALSE, FALSE)
       ELSE IF posts[pid].author # user
         THEN Answer(r, "delete", 401, TRUE, FALSE)
         ELSE /\ pproc' = [pproc EXCEPT ![r] =
                    [IdlePost EXCEPT !.pc = "deleteDo", !.kind = "delete",
                       !.user = user, !.pid = pid, !.doc = posts[pid]]]
              /\ UNCHANGED lastPostResp
  /\ UNCHANGED notPosts

\* postRoutes.js:201-212: findByIdAndDelete and the response
DeleteDo(r) ==
  /\ pproc[r].pc = "deleteDo"
  /\ LET pid == pproc[r].pid
     IN  /\ BreakChain(pid)
         /\ IF Exists(pid)
              THEN /\ posts' = [posts EXCEPT ![pid] = NoPost]
                   /\ Answer(r, "delete", 200, TRUE, TRUE)
              ELSE /\ UNCHANGED posts
                   /\ Answer(r, "delete", 404, FALSE, TRUE)
  /\ UNCHANGED <<nextPostId, pCount>>
  /\ UNCHANGED notPosts

\* a toggle that only ever adds
AlwaysPush(likes, user) == [likes |-> Append(likes, user), op |-> "push"]

\* postRoutes.js:259-269: the toggle on the loaded like list, and how the
\* document tracked it
LikeToggle(likes, user) ==
  IF \A i \in 1..Len(likes) : likes[i] # user
    THEN [likes |-> Append(likes, user), op |-> "push"]
    ELSE [likes |-> SelectSeq(likes, LAMBDA id : id # user), op |-> "set"]

\* postRoutes.js:251-269: PATCH /api/posts/:id/like up to post.save()
LikeLoad(r, user, pid) ==
  /\ CanBegin(r)
  /\ pCount' = pCount + 1
  /\ UNCHANGED <<posts, nextPostId>>
  /\ IF ~Exists(pid)
       THEN /\ Answer(r, "like", 404, FALSE, FALSE)
            /\ BreakChain(pid)
       ELSE /\ pproc' = [pproc EXCEPT ![r] =
                  [IdlePost EXCEPT !.pc = "likeSave", !.kind = "like",
                     !.user = user, !.pid = pid,
                     !.doc = [posts[pid] EXCEPT
                                !.likes = LikeToggle(@, user).likes],
                     !.likesOp = LikeToggle(posts[pid].likes, user).op]]
            /\ chain' = [chain EXCEPT ![pid] =
                  IF Busy(r, pid) THEN NoChain
                  ELSE IF @.n = 1 /\ @.u = user /\ @.open = 0
                    THEN [@ EXCEPT !.open = r]
                    ELSE [n |-> 0, u |-> user, before |-> posts[pid].likes,
                          open |-> r]]
            /\ UNCHANGED lastPostResp
  /\ UNCHANGED notPosts

\* postRoutes.js:271-275: post.save() and the response
LikeSave(r) ==
  /\ pproc[r].pc = "likeSave"
  /\ LET pid  == pproc[r].pid
         doc  == pproc[r].doc
         user == pproc[r].user
         op   == pproc[r].likesOp
     IN  IF ~Exists(pid) \/ (op = "set" /\ posts[pid].v # doc.v)
           THEN /\ UNCHANGED posts
                /\ Answer(r, "like", 400, TRUE, FALSE)
                /\ BreakChain(pid)
           ELSE /\ posts' = [posts EXCEPT ![pid] =
                      [@ EXCEPT !.likes = IF op = "push" THEN Append(@, user)
                                          ELSE doc.likes,
                                !.v = @ + 1]]
                /\ Answer(r, "like", 200, TRUE, FALSE)
                /\ chain' = [chain EXCEPT ![pid] =
                      IF @.open = r THEN [@ EXCEPT !.n = @ + 1, !.open = 0]
                      ELSE NoChain]
  /\ UNCHANGED <<nextPostId, pCount>>
  /\ UNCHANGED notPosts

\* Sample bodies of a create and of an update
Body(title, content, tags, file) ==
  [title |-> title, content |-> content, tags |-> tags, file |-> file]

CreateBodies ==
  { Body("T1", "C1", <<>>, FALSE),
    Body("T1", "C1", <<"a", ",", " ", "b">>, TRUE),
    Body(Absent, "C1", <<>>, FALSE),
    Body("T1", Absent, <<>>, FALSE) }

UpdateBodies ==
  { Body(Absent, Absent, <<>>, FALSE),
    Body("T2", Absent, <<>>, FALSE),
    Body(Absent, "C2", <<>>, FALSE),
    Body(Absent, Absent, <<"a", ",", " ", "b">>, FALSE),
    Body(Absent, Absent, <<>>, TRUE) }

PostsNext ==
  \/ \E r \in PostSlots, user \in Authors, body \in CreateBodies :
       CreatePost(r, user, body)
  \/ \E r \in PostSlots, user \in Authors, pid \in PostIds,
        body \in UpdateBodies :
       PutLoad(r, user, pid, body)
  \/ \E r \in PostSlots : PutSave(r)
  \/ \E r \in PostSlots, user \in Authors, pid \in PostIds :
       DeleteLoad(r, user, pid)
  \/ \E r \in PostSlots : DeleteDo(r)
  \/ \E r \in PostSlots, user \in Authors, pid \in PostIds :
       LikeLoad(r, user, pid)
  \/ \E r \in PostSlots : LikeSave(r)

NoDuplicates(seq) ==
  \A i, j \in 1..Len(seq) : i # j => seq[i] # seq[j]

\* C1: a PUT or DELETE by a user who is not the author of an existing post
\* is answered 401 and leaves the collection as it was.
C1_NonAuthorGets401 ==
  lastPostResp.kind \in {"put", "delete"}
    /\ lastPostResp.found /\ ~lastPostResp.author
    => lastPostResp.status = 401 /\ ~lastPostResp.changed

\* What the code does for a user who is not the author: 400 on PUT, 401 on
\* DELETE, and no change either way.
NonAuthorFact ==
  lastPostResp.kind \in {"put", "delete"}
    /\ lastPostResp.found /\ ~lastPostResp.author
    => /\ ~lastPostResp.changed
       /\ lastPostResp.status = IF lastPostResp.kind = "put" THEN 400 ELSE 401

\* C6: a PUT or DELETE whose id matches no stored post is answered 404 and
\* creates, changes and deletes nothing.
C6_MissingPostGets404 ==
  lastPostResp.kind \in {"put", "delete"} /\ ~lastPostResp.found
    => lastPostResp.status = 404 /\ ~lastPostResp.changed

\* What the code does for an id no post has: 400 on PUT, 404 on DELETE.
MissingPostFact ==
  lastPostResp.kind \in {"put", "delete"} /\ ~lastPostResp.found
    => /\ ~lastPostResp.changed
       /\ lastPostResp.status = IF lastPostResp.kind = "put" THEN 400 ELSE 404

\* C7 as stated: after two successive like requests by one user on a post,
\* with no other request on that post in between, the like list is the list
\* it was before the first.
C7_LikeTwiceRestoresList ==
  \A pid \in PostIds :
    chain[pid].n = 2 => Exists(pid) /\ posts[pid].likes = chain[pid].before

\* C7, amended: after two successive like requests by one user on a post,
\* with no other request on that post in between, the like list holds the
\* users it held before the first (their order may differ).
C7_LikeTwiceRestoresMembers ==
  \A pid \in PostIds :
    chain[pid].n = 2 =>
      /\ Exists(pid)
      /\ SetOf(posts[pid].likes) = SetOf(chain[pid].before)

\* a user who had liked a post that another user liked after them has
\* toggled twice
C7_Witness ==
  \E pid \in PostIds :
    /\ chain[pid].n = 2
    /\ Len(chain[pid].before) = 2
    /\ chain[pid].before[1] = chain[pid].u

\* C8: under any interleaving of like requests, the stored like list of
\* every post holds each user at most once.
C8_NoDuplicateLikes ==
  \A pid \in PostIds : Exists(pid) => NoDuplicates(posts[pid].likes)

(***************************************************************************)
(* Specifications                                                          *)
(***************************************************************************)
Init ==
  /\ StartupInit
  /\ UploadInit
  /\ AuthInit
  /\ UsersInit
  /\ PostsInit

SpecStartup == Init /\ [][StartupNext]_vars

SpecUpload == Init /\ [][UploadNext]_vars

SpecAuth == Init /\ [][AuthNext]_vars

SpecUsers == Init /\ [][UsersNext]_vars

SpecPosts == Init /\ [][PostsNext]_vars

=============================================================================
